---- MODULE Spec2Model ----
(***************************************************************************)
(* Upvote toggles and comment creation of the link-aggregation server      *)
(* (src/server/adapter.ts: commentRoutes and postRoutes), run as database  *)
(* transactions against the PostgreSQL schema of the same file.            *)
(*                                                                         *)
(* Every handler opens one transaction (db.transaction) and awaits its     *)
(* statements one by one, so requests interleave between statements.  The  *)
(* store is PostgreSQL at its default isolation level READ COMMITTED:      *)
(*   - a SELECT sees the rows committed when the statement starts;         *)
(*   - an UPDATE locks the row it changes until its transaction ends, and  *)
(*     an UPDATE of a row locked by another transaction waits, then works  *)
(*     on the row as that transaction left it;                             *)
(*   - INSERT and DELETE become visible to others at COMMIT;               *)
(*   - a serial id is drawn when the INSERT runs;                          *)
(*   - an exception thrown in the callback rolls the transaction back.     *)
(***************************************************************************)
EXTENDS Integers, Sequences, FiniteSets, TLC

\* ---- bounds of the model
NumUsers    == 2      \* authenticated users 1..NumUsers
NumSlots    == 2      \* requests that can be in flight at once
MaxPosts    == 2      \* posts ever created
MaxComments == 2      \* comments ever created
MaxRequests == 4      \* transactional requests ever started
MaxCount    == 7      \* rows a listing's count query can report: 0..MaxCount
MaxLimit    == 3      \* page sizes of a listing: 1..MaxLimit

Users      == 1..NumUsers
Slots      == 1..NumSlots
PostIds    == 1..MaxPosts       \* ids a request can name, created yet or not
CommentIds == 1..MaxComments

ToggleKinds == {"postUpvote", "commentUpvote"}
TargetIds(kind) == IF kind \in {"postUpvote", "postComment"} THEN PostIds ELSE CommentIds
CreateKinds == {"postComment", "commentReply"}
Kinds       == ToggleKinds \cup CreateKinds

VARIABLES
    posts,             \* posts table: sequence of rows, a post's id is its index
    comments,          \* comments table: function id -> row (committed rows)
    commentSeq,        \* comments_id_seq: last serial id drawn
    postUpvotes,       \* post_upvotes table: set of rows [id, targetId, userId]
    commentUpvotes,    \* comment_upvotes table: set of rows [id, targetId, userId]
    postUpvoteSeq,     \* post_upvotes_id_seq
    commentUpvoteSeq,  \* comment_upvotes_id_seq
    req,               \* per slot: the request in flight and its transaction
    resp,              \* the response sent last
    started,           \* number of transactional requests started so far
    lastToggle,        \* history: per target, the last committed toggle (see ToggleNote)
    call,              \* request boundary: what one request brings to it
    out                \* request boundary: what the boundary made of it

db   == <<posts, comments, postUpvotes, commentUpvotes>>
vars == <<posts, comments, commentSeq, postUpvotes, commentUpvotes,
          postUpvoteSeq, commentUpvoteSeq, req, resp, started, lastToggle, call, out>>

\* ---- rows
NoParent == [id |-> 0, postId |-> 0, depth |-> 0]
NoNote   == [user |-> 0, p0 |-> 0, had0 |-> FALSE]

\* a slot with no request
IdleReq ==
    [pc |-> "idle", kind |-> "none", user |-> 0, id |-> 0,
     existing |-> 0, pointsChange |-> 1, hit |-> FALSE, updated |-> 0,
     parent |-> NoParent, hitParent |-> FALSE, updatedParent |-> 0,
     newId |-> 0,
     p0 |-> 0, had0 |-> FALSE, alone |-> TRUE, solo |-> TRUE, prev |-> NoNote]

\* request boundary: no error, no call, no result
NoErr  == [class |-> "none", status |-> 0, form |-> FALSE, hasStack |-> FALSE]
NoCall == [kind |-> "none", route |-> "none", count |-> 0, limit |-> 1,
           valid |-> TRUE, err |-> NoErr, env |-> "unset",
           cookie |-> "none", token |-> "none"]
NoOut  == [kind |-> "none", status |-> 0, success |-> FALSE, body |-> "none",
           isFormError |-> FALSE, totalPages |-> 0,
           user |-> "unset", session |-> "unset", setCookie |-> "none", next |-> FALSE]

NoResp == [kind |-> "none", status |-> 0, count |-> 0, upvoted |-> FALSE]

PostExists(id)    == id \in 1..Len(posts)
CommentExists(id) == id \in DOMAIN comments

TargetExists(kind, id) ==
    IF kind = "postUpvote" THEN PostExists(id) ELSE CommentExists(id)

TargetPoints(kind, id) ==
    IF kind = "postUpvote" THEN posts[id].points ELSE comments[id].points

UpvoteTable(kind) ==
    IF kind = "postUpvote" THEN postUpvotes ELSE commentUpvotes

\* rows of the upvote table of `kind` for (target id, user)
UpvoteRows(kind, id, user) ==
    {u \in UpvoteTable(kind) : u.targetId = id /\ u.userId = user}

Active(r) == req[r].pc # "idle"

\* ---- row locks: an UPDATE's lock is held from the statement to the end of
\* the transaction
LocksPost(r, id) ==
    \/ req[r].kind = "postUpvote" /\ req[r].id = id /\ req[r].hit
       /\ req[r].pc \in {"write", "commit"}
    \/ req[r].kind = "postComment" /\ req[r].id = id /\ req[r].hit
       /\ req[r].pc \in {"insert", "commit"}
    \/ req[r].kind = "commentReply" /\ req[r].parent.postId = id /\ req[r].hit
       /\ req[r].pc \in {"insert", "commit"}

LocksComment(r, id) ==
    \/ req[r].kind = "commentUpvote" /\ req[r].id = id /\ req[r].hit
       /\ req[r].pc \in {"write", "commit"}
    \/ req[r].kind = "commentReply" /\ req[r].parent.id = id /\ req[r].hitParent
       /\ req[r].pc \in {"updatePost", "insert", "commit"}

PostRowFree(r, id)    == \A o \in Slots \ {r} : ~LocksPost(o, id)
CommentRowFree(r, id) == \A o \in Slots \ {r} : ~LocksComment(o, id)

\* variant: the UPDATE does not wait for the row, it works on the committed
\* value it finds (the read-then-write-back pattern)
TargetRowFree_NoWait(r, kind, id) == TRUE

TargetRowFree(r, kind, id) ==
    IF kind = "postUpvote" THEN PostRowFree(r, id) ELSE CommentRowFree(r, id)

\* ---- pieces of the handlers
\* variant: the toggle always adds a point
PointsChange_AlwaysUp(existing) == 1

\* pointsChange = existingUpvote ? -1 : 1
PointsChange(existing) == IF existing # 0 THEN -1 ELSE 1

\* sql`points + pointsChange`, evaluated by the store on the locked row
NewPoints(current, pointsChange) == current + pointsChange

\* variant: the counter is written back as it was
NewCommentCount_Same(current) == current

\* sql`commentCount + 1`
NewCommentCount(current) == current + 1

\* variants: the check is missing; the check is inverted
NotFound_Never(hit) == FALSE
NotFound_Inverted(hit) == hit

\* if (!updated) / if (!updatedPost): the UPDATE returned no row
NotFound(hit) == ~hit

\* variant: the reply takes its parent's depth
ChildDepth_Same(parentDepth) == parentDepth

\* depth: parentComment.depth + 1
ChildDepth(parentDepth) == parentDepth + 1

\* isUpvoted: pointsChange === 1 (posts); commentUpvotes non-empty (comments)
IsUpvoted(pointsChange) == pointsChange = 1

Init ==
    /\ posts = << >>
    /\ comments = << >>
    /\ commentSeq = 0
    /\ postUpvotes = {}
    /\ commentUpvotes = {}
    /\ postUpvoteSeq = 0
    /\ commentUpvoteSeq = 0
    /\ req = [r \in Slots |-> IdleReq]
    /\ resp = NoResp
    /\ started = 0
    /\ lastToggle = [k \in ToggleKinds |-> [i \in TargetIds(k) |-> NoNote]]
    /\ call = NoCall
    /\ out = NoOut

\* ---- POST /posts: one autocommit INSERT
CreatePost ==
    /\ Len(posts) < MaxPosts
    /\ posts' = Append(posts, [points |-> 0, commentCount |-> 0])
    /\ UNCHANGED <<comments, commentSeq, postUpvotes, commentUpvotes,
                   postUpvoteSeq, commentUpvoteSeq, req, resp, started, lastToggle, call, out>>

\* comment ids not yet drawn by the creation requests in flight
PendingCreates ==
    Cardinality({o \in Slots : Active(o) /\ req[o].kind \in CreateKinds /\ req[o].newId = 0})

\* first statement of each handler's transaction
FirstPc(kind) ==
    CASE kind \in ToggleKinds  -> "select"
      [] kind = "postComment"  -> "updatePost"
      [] kind = "commentReply" -> "selectParent"

\* A request by an authenticated user arrives in slot r (the lowest free one)
\* and its transaction begins.  The author of a comment is written to the row
\* and read by nothing here, so it is not kept.  p0, had0, alone, solo and prev
\* are history fields (ToggleNote).
Start(r, kind, u, id) ==
    /\ ~Active(r)
    /\ \A o \in Slots : o < r => Active(o)
    /\ started < MaxRequests
    /\ id \in TargetIds(kind)
    /\ kind \in CreateKinds => commentSeq + PendingCreates < MaxComments
    /\ started' = started + 1
    /\ LET tog      == kind \in ToggleKinds
           sameT(o) == Active(o) /\ req[o].kind = kind /\ req[o].id = id
           sameU(o) == sameT(o) /\ req[o].user = u
           isAlone  == \A o \in Slots \ {r} : ~sameT(o)
           fresh    ==
               [IdleReq EXCEPT
                  !.pc = FirstPc(kind), !.kind = kind, !.id = id,
                  !.user = IF tog THEN u ELSE 0,
                  !.p0 = IF tog /\ TargetExists(kind, id) THEN TargetPoints(kind, id) ELSE 0,
                  !.had0 = tog /\ UpvoteRows(kind, id, u) # {},
                  !.alone = isAlone,
                  !.solo = \A o \in Slots \ {r} : ~sameU(o),
                  !.prev = IF tog /\ isAlone THEN lastToggle[kind][id] ELSE NoNote]
       IN req' = [o \in Slots |->
                    IF o = r THEN fresh
                    ELSE IF tog /\ sameT(o)
                         THEN [req[o] EXCEPT !.alone = FALSE,
                                             !.solo = req[o].solo /\ ~sameU(o)]
                         ELSE req[o]]
    /\ UNCHANGED <<posts, comments, commentSeq, postUpvotes, commentUpvotes,
                   postUpvoteSeq, commentUpvoteSeq, resp, lastToggle, call, out>>

\* the transaction's callback threw an HTTPException: ROLLBACK, then the
\* error response with the exception's status
Rollback(r, status) ==
    /\ req' = [req EXCEPT ![r] = IdleReq]
    /\ resp' = [kind |-> req[r].kind, status |-> status, count |-> 0, upvoted |-> FALSE]

\* a statement of the transaction ran and the callback goes on
Goes(r, next) ==
    /\ req' = [req EXCEPT ![r] = next]
    /\ UNCHANGED resp

\* ---- upvote toggle, statement 1: SELECT ... FROM upvotes WHERE target, user LIMIT 1
SelectUpvote(r) ==
    /\ req[r].pc = "select"
    /\ LET rows == UpvoteRows(req[r].kind, req[r].id, req[r].user)
       IN \E e \in (IF rows = {} THEN {0} ELSE {u.id : u \in rows}) :
            Goes(r, [req[r] EXCEPT !.pc = "update",
                                   !.existing = e,
                                   !.pointsChange = PointsChange(e)])
    /\ UNCHANGED <<posts, comments, commentSeq, postUpvotes, commentUpvotes,
                   postUpvoteSeq, commentUpvoteSeq, started, lastToggle, call, out>>

\* ---- upvote toggle, statement 2: UPDATE target SET points = points + pointsChange
\* RETURNING points; then the not-found check
UpdatePoints(r) ==
    /\ req[r].pc = "update"
    /\ LET k   == req[r].kind
           id  == req[r].id
           hit == TargetExists(k, id)
       IN /\ hit => TargetRowFree(r, k, id)
          /\ IF NotFound(hit)
             THEN Rollback(r, 404)
             ELSE Goes(r, [req[r] EXCEPT
                            !.pc = "write",
                            !.hit = hit,
                            !.updated =
                                IF hit THEN NewPoints(TargetPoints(k, id), req[r].pointsChange)
                                ELSE 0])
    /\ UNCHANGED <<posts, comments, commentSeq, postUpvotes, commentUpvotes,
                   postUpvoteSeq, commentUpvoteSeq, started, lastToggle, call, out>>

\* ---- upvote toggle, statement 3: DELETE the row seen, or INSERT a new one
WriteUpvote(r) ==
    /\ req[r].pc = "write"
    /\ IF req[r].existing # 0
       THEN /\ Goes(r, [req[r] EXCEPT !.pc = "commit"])
            /\ UNCHANGED <<postUpvoteSeq, commentUpvoteSeq>>
       ELSE IF req[r].kind = "postUpvote"
       THEN /\ postUpvoteSeq' = postUpvoteSeq + 1
            /\ Goes(r, [req[r] EXCEPT !.pc = "commit", !.newId = postUpvoteSeq + 1])
            /\ UNCHANGED commentUpvoteSeq
       ELSE /\ commentUpvoteSeq' = commentUpvoteSeq + 1
            /\ Goes(r, [req[r] EXCEPT !.pc = "commit", !.newId = commentUpvoteSeq + 1])
            /\ UNCHANGED postUpvoteSeq
    /\ UNCHANGED <<posts, comments, commentSeq, postUpvotes, commentUpvotes,
                   started, lastToggle, call, out>>

\* ---- nested comment, statement 1: SELECT id, postId, depth FROM comments
\* WHERE id = :id LIMIT 1; then if (!parentComment) throw 404
SelectParent(r) ==
    /\ req[r].pc = "selectParent"
    /\ LET id    == req[r].id
           found == CommentExists(id)
       IN IF NotFound(found)
          THEN Rollback(r, 404)
          ELSE Goes(r, [req[r] EXCEPT
                         !.pc = "updateParent",
                         !.parent =
                             IF found
                             THEN [id |-> id, postId |-> comments[id].postId,
                                   depth |-> comments[id].depth]
                             ELSE NoParent])
    /\ UNCHANGED <<posts, comments, commentSeq, postUpvotes, commentUpvotes,
                   postUpvoteSeq, commentUpvoteSeq, started, lastToggle, call, out>>

\* ---- nested comment, statement 2: UPDATE comments SET commentCount =
\* commentCount + 1 WHERE id = parentComment.id RETURNING commentCount
UpdateParent(r) ==
    /\ req[r].pc = "updateParent"
    /\ LET pid == req[r].parent.id
           hit == CommentExists(pid)
       IN /\ hit => CommentRowFree(r, pid)
          /\ Goes(r, [req[r] EXCEPT
                       !.pc = "updatePost",
                       !.hitParent = hit,
                       !.updatedParent =
                           IF hit THEN NewCommentCount(comments[pid].commentCount) ELSE 0])
    /\ UNCHANGED <<posts, comments, commentSeq, postUpvotes, commentUpvotes,
                   postUpvoteSeq, commentUpvoteSeq, started, lastToggle, call, out>>

\* variant: the nested handler counts on the post numbered like its :id
OwningPost_RouteId(r) == req[r].id

\* the post whose commentCount a creation request increments: :id for a root
\* comment, const postId = parentComment.postId for a nested one
OwningPost(r) ==
    IF req[r].kind = "postComment" THEN req[r].id ELSE req[r].parent.postId

\* ---- root and nested comment: UPDATE posts SET commentCount = commentCount + 1
\* WHERE id = postId RETURNING commentCount; then the not-found check
\* (!updatedPost for a root comment, !updatedPost || !updateParentComment
\* for a nested one)
UpdatePost(r) ==
    /\ req[r].pc = "updatePost"
    /\ LET pid == OwningPost(r)
           hit == PostExists(pid)
       IN /\ hit => PostRowFree(r, pid)
          /\ IF \/ NotFound(hit)
                \/ req[r].kind = "commentReply" /\ NotFound(req[r].hitParent)
             THEN Rollback(r, 404)
             ELSE Goes(r, [req[r] EXCEPT
                            !.pc = "insert",
                            !.hit = hit,
                            !.updated =
                                IF hit THEN NewCommentCount(posts[pid].commentCount) ELSE 0])
    /\ UNCHANGED <<posts, comments, commentSeq, postUpvotes, commentUpvotes,
                   postUpvoteSeq, commentUpvoteSeq, started, lastToggle, call, out>>

\* ---- root and nested comment: INSERT INTO comments ... RETURNING ...
InsertComment(r) ==
    /\ req[r].pc = "insert"
    /\ commentSeq' = commentSeq + 1
    /\ Goes(r, [req[r] EXCEPT !.pc = "commit", !.newId = commentSeq + 1])
    /\ UNCHANGED <<posts, comments, postUpvotes, commentUpvotes,
                   postUpvoteSeq, commentUpvoteSeq, started, lastToggle, call, out>>

\* the comment row a creation request inserts (depth and parent_comment_id
\* take the column defaults 0 and NULL for a root comment)
NewComment(r) ==
    [postId          |-> IF req[r].kind = "postComment" THEN req[r].id
                         ELSE req[r].parent.postId,
     parentCommentId |-> IF req[r].kind = "postComment" THEN 0 ELSE req[r].parent.id,
     depth           |-> IF req[r].kind = "postComment" THEN 0
                         ELSE ChildDepth(req[r].parent.depth),
     commentCount    |-> 0,
     points          |-> 0]

\* the upvote table after the toggle's DELETE ... WHERE id = existingUpvote.id
\* or INSERT (target, user)
WrittenUpvotes(r, table) ==
    IF req[r].existing # 0
    THEN {u \in table : u.id # req[r].existing}
    ELSE table \cup {[id |-> req[r].newId, targetId |-> req[r].id, userId |-> req[r].user]}

\* ToggleNote: what a committed toggle leaves for the next one on the same
\* target: who toggled, and the target's points and the user's row as they
\* were when the request arrived; empty when another toggle on the target
\* overlapped it.
ToggleNote(r) ==
    IF req[r].alone
    THEN [user |-> req[r].user, p0 |-> req[r].p0, had0 |-> req[r].had0]
    ELSE NoNote

\* ---- COMMIT of the transaction, then the 200 response of the handler
Commit(r) ==
    /\ req[r].pc = "commit"
    /\ LET k == req[r].kind
       IN /\ posts' =
                 IF ~req[r].hit THEN posts
                 ELSE IF k = "postUpvote"
                      THEN [posts EXCEPT ![req[r].id].points = req[r].updated]
                 ELSE IF k \in CreateKinds
                      THEN [posts EXCEPT ![OwningPost(r)].commentCount = req[r].updated]
                 ELSE posts
          /\ comments' =
                 IF k = "commentUpvote"
                 THEN IF req[r].hit
                      THEN [comments EXCEPT ![req[r].id].points = req[r].updated]
                      ELSE comments
                 ELSE IF k \in CreateKinds
                 THEN (req[r].newId :> NewComment(r)) @@
                      (IF req[r].hitParent
                       THEN [comments EXCEPT ![req[r].parent.id].commentCount =
                                                 req[r].updatedParent]
                       ELSE comments)
                 ELSE comments
          /\ postUpvotes' =
                 IF k = "postUpvote" THEN WrittenUpvotes(r, postUpvotes) ELSE postUpvotes
          /\ commentUpvotes' =
                 IF k = "commentUpvote" THEN WrittenUpvotes(r, commentUpvotes)
                 ELSE commentUpvotes
          /\ lastToggle' =
                 IF k \in ToggleKinds
                 THEN [lastToggle EXCEPT ![k][req[r].id] = ToggleNote(r)]
                 ELSE lastToggle
          /\ req' = [req EXCEPT ![r] = IdleReq]
          /\ resp' = [kind |-> k, status |-> 200,
                      count |-> IF k \in ToggleKinds THEN req[r].updated ELSE 0,
                      upvoted |-> k \in ToggleKinds /\ IsUpvoted(req[r].pointsChange)]
    /\ UNCHANGED <<commentSeq, postUpvoteSeq, commentUpvoteSeq, started, call, out>>

Next ==
    \/ CreatePost
    \/ \E r \in Slots, k \in Kinds, u \in Users, id \in PostIds \cup CommentIds :
          Start(r, k, u, id)
    \/ \E r \in Slots : SelectUpvote(r)
    \/ \E r \in Slots : UpdatePoints(r)
    \/ \E r \in Slots : WriteUpvote(r)
    \/ \E r \in Slots : SelectParent(r)
    \/ \E r \in Slots : UpdateParent(r)
    \/ \E r \in Slots : UpdatePost(r)
    \/ \E r \in Slots : InsertComment(r)
    \/ \E r \in Slots : Commit(r)

Spec == Init /\ [][Next]_vars

TypeOK ==
    /\ \A r \in Slots : req[r].pc \in {"idle", "select", "update", "write",
                                        "selectParent", "updateParent", "updatePost",
                                        "insert", "commit"}
    /\ started \in 0..MaxRequests

(***************************************************************************)
(* The listing handlers' upvote flags.  Each listing is one SELECT, so it  *)
(* reads the committed tables of one state.  Filters, ordering and paging  *)
(* choose which rows are returned and leave a row's flag alone.            *)
(***************************************************************************)
\* c.get("user"): a user, or 0 for null (no session)
Callers == 0..NumUsers
IsUser(caller) == caller \in Users

\* user?.id ?? "": 0 stands for the empty id, which no row carries
UserIdOrEmpty(caller) == IF IsUser(caller) THEN caller ELSE 0

\* variant: the join matches any user's upvote of the post
JoinsUpvote_AnyUser(x, p, caller) == x.targetId = p

\* ON post_upvotes.post_id = posts.id AND post_upvotes.user_id = user.id
JoinsUpvote(x, p, caller) == x.targetId = p /\ x.userId = caller

\* the rows of post p in GET /posts and GET /posts/:id: posts LEFT JOIN
\* post_upvotes when there is a user, posts alone otherwise; upvoteUser 0
\* is the NULL of an unmatched left join
PostJoin(caller, p) ==
    LET m == {x \in postUpvotes : JoinsUpvote(x, p, caller)}
    IN IF ~IsUser(caller) \/ m = {}
       THEN {[id |-> p, upvote |-> 0, upvoteUser |-> 0]}
       ELSE {[id |-> p, upvote |-> x.id, upvoteUser |-> x.userId] : x \in m}

\* idUpvoted: user ? CASE WHEN post_upvotes.user_id IS NOT NULL THEN true
\* ELSE false END : false
IdUpvoted(caller, row) == IF IsUser(caller) THEN row.upvoteUser # 0 ELSE FALSE

\* commentUpvotes: { where: eq(userId, user?.id ?? ""), limit: 1 } of comment
\* c, in both comment listings and for child comments: the lists the query
\* may return
CommentUpvotesOf(caller, c) ==
    LET m == {x \in commentUpvotes :
                 x.targetId = c /\ x.userId = UserIdOrEmpty(caller)}
    IN IF m = {} THEN {<< >>} ELSE {<<[userId |-> x.userId]>> : x \in m}

(***************************************************************************)
(* The request boundary: the session middleware, the validator wrapper,    *)
(* the error handler and the pagination arithmetic of the listing          *)
(* handlers.  These are functions of one request's inputs; SpecEdge draws  *)
(* the inputs and applies them, over an empty store that it leaves alone.  *)
(***************************************************************************)
ListRoutes == {"GET /posts", "GET /posts/:id/comments", "GET /comments/:id/comments"}

\* a / b of two numbers, kept as the pair <<a, b>>
Quotient(a, b) == <<a, b>>

\* Math.ceil of a non-negative quotient
Ceil(q) == (q[1] + q[2] - 1) \div q[2]

\* a ?? b on the first row of the count query
Nullish(row, fallback) == IF row.present THEN Quotient(row.count, 1) ELSE fallback

\* [count] = await db.select({ count: countDistinct(id) }): an aggregate
\* without GROUP BY returns one row
CountRow(n) == [present |-> TRUE, count |-> n]

\* Math.ceil(count?.count ?? 0 / limit): the division binds tighter than ??
TotalPages(row, limit) == Ceil(Nullish(row, Quotient(0, limit)))

ListCalls ==
    {[NoCall EXCEPT !.kind = "list", !.route = rt, !.count = c, !.limit = l] :
        rt \in ListRoutes, c \in 0..MaxCount, l \in 1..MaxLimit}

\* GET listing: the pagination block of the response
ListPages ==
    /\ call.kind = "list" /\ out.kind = "none"
    /\ out' = [NoOut EXCEPT !.kind = "list", !.status = 200, !.success = TRUE,
                            !.totalPages = TotalPages(CountRow(call.count), call.limit)]
    /\ UNCHANGED <<posts, comments, commentSeq, postUpvotes, commentUpvotes,
                   postUpvoteSeq, commentUpvoteSeq, req, resp, started, lastToggle, call>>

\* ---- app.onError and the validator wrapper
Envs == {"production", "development", "test", "unset"}     \* process.env.NODE_ENV

\* what a handler can throw: an HTTPException with a status, a message and
\* possibly a cause { form }, or anything else, with or without a stack.
\* No HTTPException of the program carries a res, so err.res ?? ... is
\* its right-hand side.
HttpErrors == {[NoErr EXCEPT !.class = "HTTPException", !.status = st, !.form = f] :
                  st \in {401, 404, 409}, f \in BOOLEAN}
OtherErrors == {[NoErr EXCEPT !.class = "Error", !.hasStack = h] : h \in BOOLEAN}
ZodError == [NoErr EXCEPT !.class = "ZodError"]

\* zValidator: if (!result.success) throw result.error, before the handler;
\* otherwise the handler runs and throws err, or nothing
Thrown(valid, err) == IF ~valid THEN ZodError ELSE err

\* variant: every error is answered as an internal one
ErrorStatus_Always500(err) == 500

\* the HTTP status onError answers with
ErrorStatus(err) ==
    IF err.class = "ZodError" THEN 400
    ELSE IF err.class = "HTTPException" THEN err.status
    ELSE 500

\* the error member of the body onError answers with
ErrorBody(err, env) ==
    IF err.class = "ZodError" THEN "issues"
    ELSE IF err.class = "HTTPException" THEN "message"
    ELSE IF env = "production" THEN "Internal Server Error"
    ELSE IF err.hasStack THEN "stack" ELSE "message"

OnError(err, env) ==
    [NoOut EXCEPT !.kind = "request",
                  !.status = ErrorStatus(err),
                  !.success = FALSE,
                  !.body = ErrorBody(err, env),
                  !.isFormError = err.class = "HTTPException" /\ err.form]

RequestCalls ==
    {[NoCall EXCEPT !.kind = "request", !.valid = v, !.err = e, !.env = env] :
        v \in BOOLEAN, e \in {NoErr} \cup HttpErrors \cup OtherErrors, env \in Envs}

\* one request through validator, handler and, on a throw, onError
HandleRequest ==
    /\ call.kind = "request" /\ out.kind = "none"
    /\ LET err == Thrown(call.valid, call.err)
       IN out' = IF err.class = "none"
                 THEN [NoOut EXCEPT !.kind = "request", !.status = 200,
                                    !.success = TRUE, !.body = "data"]
                 ELSE OnError(err, call.env)
    /\ UNCHANGED <<posts, comments, commentSeq, postUpvotes, commentUpvotes,
                   postUpvoteSeq, commentUpvoteSeq, req, resp, started, lastToggle, call>>

\* ---- the session middleware
Cookies == {"none", "empty", "token"}          \* the auth cookie of the request
Tokens  == {"invalid", "valid", "fresh"}       \* what the token resolves to

\* lucia.readSessionCookie(...) followed by if (!sessionId)
HasSessionId(cookie) == cookie = "token"

\* lucia.validateSession(sessionId): { session: null, user: null } or both set
ValidateSession(token) ==
    IF token = "invalid" THEN [session |-> "null", user |-> "null", fresh |-> FALSE]
    ELSE [session |-> "session", user |-> "user", fresh |-> token = "fresh"]

\* variant: the middleware never appends a cookie
SessionCookie_None(v) == "none"

\* the Set-Cookie header the middleware appends
SessionCookie(v) ==
    IF v.session # "null" /\ v.fresh THEN "refreshed"
    ELSE IF v.session = "null" THEN "blank"
    ELSE "none"

SessionCalls ==
    {[NoCall EXCEPT !.kind = "session", !.cookie = ck, !.token = tk] :
        ck \in Cookies, tk \in Tokens}

SessionMiddleware ==
    /\ call.kind = "session" /\ out.kind = "none"
    /\ out' = IF ~HasSessionId(call.cookie)
              THEN [NoOut EXCEPT !.kind = "session", !.user = "null",
                                 !.session = "null", !.next = TRUE]
              ELSE LET v == ValidateSession(call.token)
                   IN [NoOut EXCEPT !.kind = "session",
                                    !.setCookie = SessionCookie(v),
                                    !.session = v.session,
                                    !.user = v.user,
                                    !.next = TRUE]
    /\ UNCHANGED <<posts, comments, commentSeq, postUpvotes, commentUpvotes,
                   postUpvoteSeq, commentUpvoteSeq, req, resp, started, lastToggle, call>>

\* ---- the boundary specification
InitEdge ==
    /\ posts = <<>>
    /\ comments = <<>>
    /\ commentSeq = 0
    /\ postUpvotes = {}
    /\ commentUpvotes = {}
    /\ postUpvoteSeq = 0
    /\ commentUpvoteSeq = 0
    /\ req = [r \in Slots |-> IdleReq]
    /\ resp = NoResp
    /\ started = 0
    /\ lastToggle = [k \in ToggleKinds |-> [i \in TargetIds(k) |-> NoNote]]
    /\ call \in ListCalls \cup RequestCalls \cup SessionCalls
    /\ out = NoOut

NextEdge ==
    \/ ListPages
    \/ HandleRequest
    \/ SessionMiddleware

SpecEdge == InitEdge /\ [][NextEdge]_vars

(***************************************************************************)
(* Properties                                                              *)
(***************************************************************************)
\* the step is the COMMIT of request r
Commits(r) == req[r].pc = "commit" /\ req'[r].pc = "idle"

\* request r takes the step
Steps(r) == Active(r) /\ req'[r].pc # req[r].pc

\* the target's points and the user's rows after the step
PointsAfter(kind, id) ==
    IF kind = "postUpvote" THEN posts'[id].points ELSE comments'[id].points

UpvoteRowsAfter(kind, id, user) ==
    {u \in (IF kind = "postUpvote" THEN postUpvotes' ELSE commentUpvotes') :
        u.targetId = id /\ u.userId = user}

RowsOfTarget(kind, id) == {u \in UpvoteTable(kind) : u.targetId = id}

\* C1: in every reachable state there is at most one upvote row per
\* (user, target) pair, in post_upvotes and in comment_upvotes.
C1_AtMostOneUpvoteRow ==
    \A k \in ToggleKinds : \A id \in TargetIds(k), u \in Users :
        Cardinality(UpvoteRows(k, id, u)) <= 1

\* C2: no increment is lost.  Every committing toggle moves the target's
\* committed points by exactly its own delta, whatever other toggles
\* committed while it ran; and when no other toggle by the same user on the
\* same target overlapped it (the callers are distinct users), that delta is
\* +1 if the user had no upvote row and -1 if the user had one.  The final
\* points of N such calls are therefore the initial points plus the sum of
\* the deltas.
C2_NoLostUpdate ==
    [][\A r \in Slots :
         (req[r].kind \in ToggleKinds /\ Commits(r)) =>
            LET k  == req[r].kind
                id == req[r].id
                d  == req[r].pointsChange
            IN /\ PointsAfter(k, id) = TargetPoints(k, id) + d
               /\ req[r].solo =>
                    d = (IF UpvoteRows(k, id, req[r].user) = {} THEN 1 ELSE -1)]_vars

\* C2 witness: two toggles by distinct users on one target are in flight, one
\* removing an upvote and holding the row, the other adding one and waiting.
C2_Witness ==
    \E r1, r2 \in Slots :
        /\ r1 # r2
        /\ req[r1].kind \in ToggleKinds /\ req[r2].kind = req[r1].kind
        /\ req[r1].id = req[r2].id /\ req[r1].user # req[r2].user
        /\ req[r1].pc = "commit" /\ req[r1].pointsChange = -1
        /\ req[r2].pc = "update" /\ req[r2].pointsChange = 1
        /\ TargetPoints(req[r1].kind, req[r1].id) = 2

\* C3: each post's and each comment's points equals the number of upvote rows
\* that reference it.
C3_PointsEqualUpvoteRows ==
    \A k \in ToggleKinds : \A id \in TargetIds(k) :
        TargetExists(k, id) =>
            TargetPoints(k, id) = Cardinality(RowsOfTarget(k, id))

\* C4: when a user's toggle commits and the previous committed toggle on the
\* target was by the same user, with no other toggle on the target from the
\* arrival of the first to the commit of the second, the target's points and
\* the user's upvote state are back to what they were before the first; in
\* particular no row remains if there was none.
C4_ToggleTwiceRestores ==
    [][\A r \in Slots :
         (/\ req[r].kind \in ToggleKinds /\ Commits(r)
          /\ req[r].alone /\ req[r].prev.user = req[r].user) =>
            LET k  == req[r].kind
                id == req[r].id
            IN /\ PointsAfter(k, id) = req[r].prev.p0
               /\ (UpvoteRowsAfter(k, id, req[r].user) # {}) = req[r].prev.had0]_vars

\* C5: a successful toggle returns the points its transaction committed and
\* an upvoted indicator that is true exactly when an upvote row for
\* (target, user) exists after the commit.
C5_ResponseMatchesState ==
    [][\A r \in Slots :
         (req[r].kind \in ToggleKinds /\ Commits(r)) =>
            /\ resp'.status = 200
            /\ resp'.count = PointsAfter(req[r].kind, req[r].id)
            /\ resp'.upvoted = (UpvoteRowsAfter(req[r].kind, req[r].id, req[r].user) # {})]_vars

\* C6: a toggle whose target does not exist changes nothing in any of its
\* steps, and the step that runs its UPDATE ends it with 404.
C6_ToggleNotFound ==
    [][\A r \in Slots :
         (/\ req[r].kind \in ToggleKinds /\ Steps(r)
          /\ ~TargetExists(req[r].kind, req[r].id)) =>
            /\ db' = db
            /\ req[r].pc = "update" => (resp'.status = 404 /\ req'[r].pc = "idle")]_vars

\* C6 witness: a toggle was answered 404 and nothing was ever written.
C6_Witness ==
    /\ resp.kind \in ToggleKinds /\ resp.status = 404
    /\ postUpvotes = {} /\ commentUpvotes = {}
    /\ postUpvoteSeq = 0 /\ commentUpvoteSeq = 0

CommentsOfPost(p)  == {c \in DOMAIN comments : comments[c].postId = p}
RepliesTo(c)       == {d \in DOMAIN comments : comments[d].parentCommentId = c}

\* C7: each post's commentCount equals the number of comment rows whose
\* postId is that post, direct and nested.
C7_PostCommentCount ==
    \A p \in 1..Len(posts) :
        posts[p].commentCount = Cardinality(CommentsOfPost(p))

\* C7 witness: the second post counts two comments, a root and its reply.
C7_Witness ==
    /\ Len(posts) = 2
    /\ posts[2].commentCount = 2
    /\ \E c \in CommentsOfPost(2) : comments[c].parentCommentId # 0

\* C8: each comment's commentCount equals the number of its direct replies.
C8_CountIsReplies ==
    \A c \in DOMAIN comments :
        comments[c].commentCount = Cardinality(RepliesTo(c))

\* C8: a nested creation under parent P adds exactly 1 to P's commentCount
\* and leaves every other comment's commentCount as it was.
C8_ReplyStep ==
    \A r \in Slots :
        (req[r].kind = "commentReply" /\ Commits(r)) =>
            \A c \in DOMAIN comments :
                comments'[c].commentCount =
                    comments[c].commentCount + (IF c = req[r].parent.id THEN 1 ELSE 0)

\* C8: the two together.
C8_CommentCommentCount == []C8_CountIsReplies /\ [][C8_ReplyStep]_vars

\* C8 witness: a comment has one reply and counts it, another has none.
C8_Witness ==
    \E c, d \in DOMAIN comments :
        /\ comments[d].parentCommentId = c
        /\ comments[c].commentCount = 1
        /\ comments[d].commentCount = 0

\* C9: every comment is a root (no parent, depth 0) or has an existing parent
\* of the same post and is one level deeper than it.
C9_ThreadShape ==
    \A c \in DOMAIN comments :
        LET p == comments[c].parentCommentId
        IN IF p = 0
           THEN comments[c].depth = 0
           ELSE /\ p \in DOMAIN comments
                /\ comments[p].postId = comments[c].postId
                /\ comments[c].depth = comments[p].depth + 1

\* C9 witness: a reply at depth 1 under a root of the second post.
C9_Witness ==
    \E c \in DOMAIN comments :
        /\ comments[c].parentCommentId # 0
        /\ comments[c].depth = 1
        /\ comments[c].postId = 2

\* the step of a creation request that finds its target missing
CreateFails(r) ==
    \/ /\ req[r].kind = "postComment" /\ req[r].pc = "updatePost"
       /\ ~PostExists(req[r].id)
    \/ /\ req[r].kind = "commentReply" /\ req[r].pc = "selectParent"
       /\ ~CommentExists(req[r].id)
    \/ /\ req[r].kind = "commentReply" /\ req[r].pc = "updatePost"
       /\ (~PostExists(req[r].parent.postId) \/ ~req[r].hitParent)

\* C10: a creation that finds its post or parent comment missing is answered
\* 404 and ends there; no step before a COMMIT, a failing one included,
\* changes a row or a counter.
C10_CreateNotFound ==
    [][\A r \in Slots :
         (req[r].kind \in CreateKinds /\ Steps(r)) =>
            /\ CreateFails(r) => (resp'.status = 404 /\ req'[r].pc = "idle")
            /\ ~Commits(r) => db' = db]_vars

\* C10 witness: a creation was answered 404 while a comment exists, and the
\* counters still match the rows.
C10_Witness ==
    /\ resp.kind \in CreateKinds /\ resp.status = 404
    /\ DOMAIN comments # {}
    /\ \A p \in 1..Len(posts) : posts[p].commentCount = Cardinality(CommentsOfPost(p))

\* C11: every listing endpoint answers totalPages = ceil(c / L) for every
\* count c >= 0 and limit L > 0: 0 for c = 0, 1 for c = L, 2 for c = L + 1.
C11_TotalPagesIsCeil ==
    out.kind = "list" =>
        out.totalPages = (call.count + call.limit - 1) \div call.limit

\* C12: an anonymous caller is shown upvoted = false for every post and an
\* empty commentUpvotes for every comment, whatever rows exist; a user is
\* shown true exactly for the targets that user has an upvote row for.
C12_ListingFlags ==
    \A caller \in Callers :
        /\ \A p \in 1..Len(posts) : \A row \in PostJoin(caller, p) :
              IdUpvoted(caller, row) =
                  (IsUser(caller) /\ \E x \in postUpvotes :
                                        x.targetId = p /\ x.userId = caller)
        /\ \A c \in DOMAIN comments : \A l \in CommentUpvotesOf(caller, c) :
              (l # << >>) =
                  (IsUser(caller) /\ \E x \in commentUpvotes :
                                        x.targetId = c /\ x.userId = caller)

\* C12 witness: post 1 is upvoted by user 1 only and some comment by user 2
\* only; user 1 is shown the post as upvoted, user 2 and the anonymous
\* caller are not, and user 2 is shown the comment's upvote.
C12_Witness ==
    /\ Len(posts) >= 1
    /\ \E x \in postUpvotes : x.targetId = 1 /\ x.userId = 1
    /\ \A x \in postUpvotes : x.userId # 2
    /\ \E row \in PostJoin(1, 1) : IdUpvoted(1, row)
    /\ \A row \in PostJoin(2, 1) \cup PostJoin(0, 1) : ~IdUpvoted(0, row)
    /\ \E c \in DOMAIN comments :
          /\ \E x \in commentUpvotes : x.targetId = c /\ x.userId = 2
          /\ \A x \in commentUpvotes : x.userId # 1
          /\ << >> \notin CommentUpvotesOf(2, c)
          /\ CommentUpvotesOf(1, c) = {<< >>}

\* C13: a toggle that succeeds inserts or deletes exactly one row of its
\* upvote table and changes the points of its target and nothing else; a
\* toggle that fails, and every step before a COMMIT, changes nothing.
C13_ToggleFrame ==
    [][\A r \in Slots :
         (req[r].kind \in ToggleKinds /\ Steps(r)) =>
            IF Commits(r)
            THEN LET k     == req[r].kind
                     id    == req[r].id
                     table == UpvoteTable(k)
                     after == IF k = "postUpvote" THEN postUpvotes' ELSE commentUpvotes'
                 IN /\ Cardinality(after \ table) + Cardinality(table \ after) = 1
                    /\ \A x \in (after \ table) \cup (table \ after) :
                          x.targetId = id /\ x.userId = req[r].user
                    /\ PointsAfter(k, id) # TargetPoints(k, id)
                    /\ \A o \in ToggleKinds : \A t \in TargetIds(o) :
                          (TargetExists(o, t) /\ <<o, t>> # <<k, id>>) =>
                              PointsAfter(o, t) = TargetPoints(o, t)
                    /\ \A p \in 1..Len(posts) :
                          posts'[p].commentCount = posts[p].commentCount
                    /\ \A c \in DOMAIN comments :
                          comments'[c].commentCount = comments[c].commentCount
                    /\ k = "postUpvote" => commentUpvotes' = commentUpvotes
                    /\ k = "commentUpvote" => postUpvotes' = postUpvotes
            ELSE db' = db]_vars

\* C14: a validation failure is answered 400 with the issue list, an
\* HTTPException with its own status and its message, any other error with
\* 500; a body says success = true only when nothing was thrown.
C14_ErrorClasses ==
    out.kind = "request" =>
        /\ ~call.valid =>
              out.status = 400 /\ out.body = "issues" /\ ~out.success
        /\ (call.valid /\ call.err.class = "HTTPException") =>
              out.status = call.err.status /\ out.body = "message" /\ ~out.success
        /\ (call.valid /\ call.err.class = "Error") =>
              out.status = 500 /\ ~out.success
        /\ out.success <=> (call.valid /\ call.err.class = "none")

\* C14 witness: a request whose input fails validation was answered 400
\* with the issues, although its handler would have thrown a 404.
C14_Witness ==
    /\ out.kind = "request" /\ ~call.valid
    /\ call.err.class = "HTTPException" /\ call.err.status = 404
    /\ out.status = 400 /\ out.body = "issues"

\* C15: the 500 body of an internal failure carries the error's stack or
\* message only when the environment is development; for production, an
\* unset environment and every other value it hides them.
C15_DetailOnlyInDevelopment ==
    (out.kind = "request" /\ out.status = 500) =>
        (out.body \in {"stack", "message"} => call.env = "development")

\* C16: the session middleware always calls next with user and session
\* set: both null without a session cookie or with a token that does not
\* validate, the validated session and its user otherwise; it appends a
\* blank cookie for an invalid token and a refreshed one for a fresh session.
C16_SessionContext ==
    out.kind = "session" =>
        LET sent  == call.cookie = "token"
            valid == sent /\ call.token # "invalid"
        IN /\ out.next
           /\ ~valid => (out.user = "null" /\ out.session = "null")
           /\ valid => (out.user = "user" /\ out.session = "session")
           /\ (sent /\ ~valid) => out.setCookie = "blank"
           /\ (sent /\ call.token = "fresh") => out.setCookie = "refreshed"

\* C16 witness: a request with a token that does not validate went on to
\* its handler with a null identity and a blank cookie.
C16_Witness ==
    /\ out.kind = "session" /\ call.cookie = "token" /\ call.token = "invalid"
    /\ out.next /\ out.user = "null" /\ out.setCookie = "blank"

\* C17: every post's and every comment's points counter is >= 0 in every
\* reachable state, overlapping toggles of one user on one target included.
C17_PointsNonNegative ==
    /\ \A p \in 1..Len(posts) : posts[p].points >= 0
    /\ \A c \in DOMAIN comments : comments[c].points >= 0

====
